---- MODULE Spec2Model ----
(***************************************************************************)
(* District adjacency scoring of the Civ 6 planner                         *)
(* (renderer/utils/adjacencyCalculator.ts on top of hexNeighbors and       *)
(* coordKey).                                                              *)
(*                                                                         *)
(* Numbers.  Every bonus the calculator handles is a multiple of 0.5, so   *)
(* bonusPerSource, totalBonus and the raw total are held in HALVES         *)
(* (1 stands for 0.5, 2 for 1, 4 for 2); Math.floor of such a value is     *)
(* integer division by 2.  The final `bonus` is the floored value, a plain *)
(* integer.                                                                *)
(*                                                                         *)
(* Optional values.  An optional string field (modifier, improvement,      *)
(* district, wonder) that is absent holds "undefined"; an optional object  *)
(* (resource, a looked-up tile, a created source) is a sequence of length  *)
(* 0 (undefined / null) or 1.                                              *)
(***************************************************************************)
EXTENDS Integers, Sequences, FiniteSets, TLC

VARIABLES
    tiles,      \* Map<string, Tile>: a function from coordKey strings to tiles
    pc,         \* "ready" | "done" | "doubled" | "deleted" | "all"
    coord,      \* arguments of the last calculateAdjacency call ...
    district,
    playerCiv,
    result,     \* ... and what it returned (<<>> before the first call)
    doubled,    \* the result of the call repeated with { policyMultiplier: 2 }
    before,     \* the result before a neighbor was removed from the map
    removed,    \* the tile that was removed (<<>> when none was)
    results,    \* what calculateAllAdjacencies returned (<<>> before it ran)
    op,         \* the helper function called last ("none" before any call) ...
    opArgs,     \* ... the arguments it was called with ...
    ret,        \* ... and what it returned, as <<value>>
    prevCall,   \* the helper call before that, as <<[op, opArgs, ret]>>
    store,      \* the state of the zustand store
    storeCall,  \* the store action called last, as <<[name, coord, before, same]>>
    clock,      \* the system time, which `new Date()` reads
    uuid,       \* the number of ids that uuidv4() has handed out
    gameState,  \* the game state given to serialize, as <<state>>
    serialized, \* what serialize returned, as <<data>>
    restored,   \* what deserialize returned for it, as <<state>>
    disk,       \* each path's file: <<>> or <<content>>, content in chunks
    saving      \* the save under way or ended, as <<[data, previous, pc]>>

\* The variables of the adjacency calls and those of the helper calls
adjacencyVars ==
    <<tiles, pc, coord, district, playerCiv, result, doubled, before, removed, results>>
helperVars == <<op, opArgs, ret, prevCall>>
storeVars == <<store, storeCall, clock, uuid>>
persistVars == <<gameState, serialized, restored>>
saveVars == <<disk, saving>>

vars == <<adjacencyVars, helperVars, storeVars, persistVars, saveVars>>

(***************************************************************************)
(* types/model.ts                                                          *)
(***************************************************************************)

HexCoord(q, r) == [q |-> q, r |-> r]

\* `${c.q},${c.r}`
coordKey(c) == ToString(c.q) \o "," \o ToString(c.r)

DistrictType ==
    { "city_center", "campus", "holy_site", "theater_square", "commercial_hub",
      "harbor", "industrial_zone", "encampment", "entertainment_complex",
      "water_park", "aerodrome", "spaceport", "government_plaza",
      "diplomatic_quarter", "neighborhood", "aqueduct", "dam", "canal",
      "preserve" }

\* Array.prototype.includes
includes(arr, x) == \E i \in DOMAIN arr : arr[i] = x

\* Map.prototype.get: <<>> stands for undefined
MapGet(m, key) == IF key \in DOMAIN m THEN <<m[key]>> ELSE <<>>

(***************************************************************************)
(* renderer/utils/hexUtils.ts                                              *)
(***************************************************************************)

\* A faulty variant of directions: counter-clockwise from East
directions_counterClockwise ==
    << HexCoord(1, 0), HexCoord(0, 1), HexCoord(-1, 1),
       HexCoord(-1, 0), HexCoord(0, -1), HexCoord(1, -1) >>

\* A faulty variant of directions: the last offset is (1, 1), which has no
\* opposite in the list
directions_southeastOff ==
    << HexCoord(1, 0), HexCoord(1, -1), HexCoord(0, -1),
       HexCoord(-1, 0), HexCoord(-1, 1), HexCoord(1, 1) >>

directions ==
    << HexCoord(1, 0),     \* East
       HexCoord(1, -1),    \* Northeast
       HexCoord(0, -1),    \* Northwest
       HexCoord(-1, 0),    \* West
       HexCoord(-1, 1),    \* Southwest
       HexCoord(0, 1) >>   \* Southeast

hexNeighbors(c) ==
    [i \in DOMAIN directions |->
        HexCoord(c.q + directions[i].q, c.r + directions[i].r)]

\* Math.abs, Math.max, Math.min
abs(x) == IF x < 0 THEN -x ELSE x
max(x, y) == IF x >= y THEN x ELSE y
min(x, y) == IF x <= y THEN x ELSE y

\* Math.round of a number given in quarters (1 = 0.25): the nearest integer,
\* a tie going up
round(x) == (x + 2) \div 4

\* A faulty variant of hexRound: the rounded s is returned as r
hexRound_returnsS(c) ==
    LET s     == (-c.q) - c.r
        rq    == round(c.q)
        rr    == round(c.r)
        rs    == round(s)
        qDiff == abs(4 * rq - c.q)
        rDiff == abs(4 * rr - c.r)
        sDiff == abs(4 * rs - s)
    IN  IF qDiff > rDiff /\ qDiff > sDiff THEN HexCoord((-rr) - rs, rs)
        ELSE IF rDiff > sDiff THEN HexCoord(rq, rs)
        ELSE HexCoord(rq, rs)

\* hexRound: c.q and c.r are fractional and are given in quarters (1 = 0.25,
\* which floating point holds exactly); the result is in whole hexes
hexRound(c) ==
    LET s     == (-c.q) - c.r
        rq    == round(c.q)
        rr    == round(c.r)
        rs    == round(s)
        qDiff == abs(4 * rq - c.q)
        rDiff == abs(4 * rr - c.r)
        sDiff == abs(4 * rs - s)
    IN  IF qDiff > rDiff /\ qDiff > sDiff THEN HexCoord((-rr) - rs, rr)
        ELSE IF rDiff > sDiff THEN HexCoord(rq, (-rq) - rs)
        ELSE HexCoord(rq, rr)

\* A faulty variant of hexDistance: the first difference is taken signed
hexDistance_signed(a, b) ==
    (a.q - b.q) + abs((a.q + a.r) - b.q - b.r) + abs(a.r - b.r)

\* hexDistance: the sum of the three absolute differences, divided by 2.
\* The number returned is held in halves (1 = 0.5), which is that sum.
hexDistance(a, b) ==
    abs(a.q - b.q) + abs((a.q + a.r) - b.q - b.r) + abs(a.r - b.r)

\* hexesInRange, the inner loop: r up to rMax
RECURSIVE innerLoop(_, _, _, _)
innerLoop(center, q, r, rMax) ==
    IF r > rMax THEN <<>>
    ELSE <<HexCoord(center.q + q, center.r + r)>> \o innerLoop(center, q, r + 1, rMax)

\* A faulty variant of outerLoop: r runs from -range to range for every q
RECURSIVE outerLoop_square(_, _, _)
outerLoop_square(center, range, q) ==
    IF q > range THEN <<>>
    ELSE innerLoop(center, q, -range, range) \o outerLoop_square(center, range, q + 1)

\* hexesInRange, the outer loop: q up to range
RECURSIVE outerLoop(_, _, _)
outerLoop(center, range, q) ==
    IF q > range THEN <<>>
    ELSE innerLoop(center, q, max(-range, (-q) - range), min(range, (-q) + range))
         \o outerLoop(center, range, q + 1)

hexesInRange(center, range) == outerLoop(center, range, -range)

(***************************************************************************)
(* renderer/utils/adjacencyCalculator.ts: rule tables                      *)
(***************************************************************************)

STANDARD_DISTRICTS ==
    << "campus", "holy_site", "theater_square", "commercial_hub",
       "industrial_zone", "harbor", "encampment", "entertainment_complex",
       "water_park", "aerodrome", "spaceport", "neighborhood", "preserve",
       "diplomatic_quarter" >>

ADJACENCY_PROVIDING_DISTRICTS ==
    << "city_center", "campus", "holy_site", "theater_square",
       "commercial_hub", "harbor", "industrial_zone", "encampment",
       "entertainment_complex", "water_park", "aerodrome", "spaceport",
       "government_plaza", "diplomatic_quarter", "neighborhood", "aqueduct",
       "dam", "canal", "preserve" >>

(***************************************************************************)
(* Civilization modifiers.  A civilization id is a string, held as the     *)
(* sequence of its characters so that toLowerCase is computed; <<>> is an  *)
(* absent (or empty) id.                                                   *)
(***************************************************************************)

UpperCase == << "A", "B", "C", "D", "E", "F", "G", "H", "I", "J", "K", "L", "M",
                "N", "O", "P", "Q", "R", "S", "T", "U", "V", "W", "X", "Y", "Z" >>
LowerCase == << "a", "b", "c", "d", "e", "f", "g", "h", "i", "j", "k", "l", "m",
                "n", "o", "p", "q", "r", "s", "t", "u", "v", "w", "x", "y", "z" >>

\* A faulty variant of toLowerCase: the id is compared as it was given
toLowerCase_asGiven(s) == s

\* String.prototype.toLowerCase
toLowerCase(s) ==
    [i \in DOMAIN s |->
        IF \E k \in DOMAIN UpperCase : UpperCase[k] = s[i]
        THEN LowerCase[CHOOSE k \in DOMAIN UpperCase : UpperCase[k] = s[i]]
        ELSE s[i]]

\* The `match` closures of extraSources, as data: which field of the tile
\* the closure reads and the value it compares it with.
matchImprovement(v) == [reads |-> "improvement", equals |-> v]
matchDistrict(v)    == [reads |-> "district", equals |-> v]
matchAnyResource    == [reads |-> "resource", equals |-> "defined"]

\* extra.match(tile)
applyMatch(m, t) ==
    CASE m.reads = "improvement" -> t.improvement = m.equals
      [] m.reads = "district"    -> t.district = m.equals
      [] m.reads = "resource"    -> t.resource # <<>>

\* {}: an object with no keys
EmptyObject == [k \in {} |-> 0]

defaultModifiers ==
    [ districtBonusMultiplier |-> 1,            \* 0.5
      featureBonuses  |-> EmptyObject,          \* {}
      customDistricts |-> EmptyObject ]         \* {}

PastureAustralia ==
    [ replaces |-> "undefined",
      extraSources |->
        << [source |-> "Pasture (Australia)", match |-> matchImprovement("pasture"),
            bonusPerSource |-> 1] >> ]

getCivModifiers(civId) ==
    IF civId = <<>> THEN defaultModifiers
    ELSE LET id == toLowerCase(civId) IN
      CASE id = <<"j", "a", "p", "a", "n">> ->
             [defaultModifiers EXCEPT !.districtBonusMultiplier = 2]   \* 1.0
        [] id = <<"g", "e", "r", "m", "a", "n", "y">> ->
             [defaultModifiers EXCEPT !.customDistricts =
                [d \in {"industrial_zone"} |->
                  [ replaces |-> "industrial_zone",
                    extraSources |->
                      << [source |-> "Commercial Hub (Germany)",
                          match |-> matchDistrict("commercial_hub"),
                          bonusPerSource |-> 4],
                         [source |-> "Resource (Germany)",
                          match |-> matchAnyResource,
                          bonusPerSource |-> 2] >> ]]]
        [] id = <<"b", "r", "a", "z", "i", "l">> ->
             [defaultModifiers EXCEPT !.featureBonuses =
                [k \in {"rainforest_commercial_hub", "rainforest_holy_site",
                        "rainforest_theater_square"} |-> 2]]
        [] id = <<"k", "o", "r", "e", "a">> ->
             [defaultModifiers EXCEPT !.customDistricts =
                [d \in {"campus"} |->
                  [replaces |-> "campus", extraSources |-> <<>>]]]
        [] id = <<"a", "u", "s", "t", "r", "a", "l", "i", "a">> ->
             [defaultModifiers EXCEPT !.customDistricts =
                [d \in {"campus", "commercial_hub", "holy_site", "theater_square"}
                   |-> PastureAustralia]]
        [] id = <<"r", "u", "s", "s", "i", "a">> -> defaultModifiers
        [] id = <<"m", "a", "y", "a">> ->
             [defaultModifiers EXCEPT !.customDistricts =
                [d \in {"campus"} |->
                  [ replaces |-> "campus",
                    extraSources |->
                      << [source |-> "Farm (Maya)",
                          match |-> matchImprovement("farm"),
                          bonusPerSource |-> 1],
                         [source |-> "Plantation (Maya)",
                          match |-> matchImprovement("plantation"),
                          bonusPerSource |-> 4] >> ]]]
        [] OTHER -> defaultModifiers

(***************************************************************************)
(* Helper functions                                                        *)
(***************************************************************************)

\* A faulty variant of getNeighborTiles: a neighbor missing from the map is
\* taken to be open coast instead of being left out
getNeighborTiles_offMapAsCoast(c, m) ==
    LET neighbors == hexNeighbors(c)
    IN  [i \in DOMAIN neighbors |->
            IF coordKey(neighbors[i]) \in DOMAIN m
            THEN m[coordKey(neighbors[i])]
            ELSE [ coord |-> neighbors[i], terrain |-> "coast",
                   modifier |-> "undefined", features |-> <<>>, resource |-> <<>>,
                   riverEdges |-> <<FALSE, FALSE, FALSE, FALSE, FALSE, FALSE>>,
                   improvement |-> "undefined", district |-> "undefined",
                   wonder |-> "undefined", owningCityId |-> "undefined",
                   isPillaged |-> FALSE, plannedStates |-> <<>>,
                   isLocked |-> FALSE ]]

\* hexNeighbors(coord).map(n => tiles.get(coordKey(n))).filter(t => t !== undefined)
getNeighborTiles(c, m) ==
    LET neighbors == hexNeighbors(c)
        found == [i \in DOMAIN neighbors |-> MapGet(m, coordKey(neighbors[i]))]
        kept  == SelectSeq(found, LAMBDA t : t # <<>>)
    IN  [i \in DOMAIN kept |-> kept[i][1]]

\* tile.riverEdges?.some(e => e) ?? false
hasRiver(tile) == \E i \in DOMAIN tile.riverEdges : tile.riverEdges[i]

\* neighbors.filter(predicate).length; the predicate is a function on the
\* neighbor tiles
countMatching(neighbors, predicate) ==
    Len(SelectSeq(neighbors, LAMBDA t : predicate[t]))

\* The tiles a predicate ranges over
Among(neighbors) == {neighbors[i] : i \in DOMAIN neighbors}

\* null (<<>>) when count is 0
\* A faulty variant of createSource: a source is made for a count of zero too
createSource_zeroCount(source, count, bonusPerSource) ==
    << [ source |-> source,
         count |-> count,
         bonusPerSource |-> bonusPerSource,
         totalBonus |-> count * bonusPerSource ] >>

createSource(source, count, bonusPerSource) ==
    IF count = 0 THEN <<>>
    ELSE << [ source |-> source,
              count |-> count,
              bonusPerSource |-> bonusPerSource,
              totalBonus |-> count * bonusPerSource ] >>

(***************************************************************************)
(* District-specific calculators.  `if (s) sources.push(s)` of optional    *)
(* sources in turn is the concatenation of the length-0-or-1 sequences.    *)
(***************************************************************************)

\* A faulty variant of calculateCampusAdjacency: the reef source is missing
calculateCampusAdjacency_noReef(neighbors) ==
    LET T == Among(neighbors)
        mountains  == countMatching(neighbors, [t \in T |-> t.modifier = "mountain"])
        rainforest == countMatching(neighbors, [t \in T |-> includes(t.features, "rainforest")])
        geothermal == countMatching(neighbors, [t \in T |-> includes(t.features, "geothermal")])
    IN  createSource("Mountain", mountains, 2)
        \o createSource("Rainforest", rainforest, 2)
        \o createSource("Geothermal Fissure", geothermal, 2)

calculateCampusAdjacency(neighbors) ==
    LET T == Among(neighbors)
        mountains  == countMatching(neighbors, [t \in T |-> t.modifier = "mountain"])
        rainforest == countMatching(neighbors, [t \in T |-> includes(t.features, "rainforest")])
        reef       == countMatching(neighbors, [t \in T |-> includes(t.features, "reef")])
        geothermal == countMatching(neighbors, [t \in T |-> includes(t.features, "geothermal")])
    IN  createSource("Mountain", mountains, 2)
        \o createSource("Rainforest", rainforest, 2)
        \o createSource("Reef", reef, 2)
        \o createSource("Geothermal Fissure", geothermal, 2)

calculateHolySiteAdjacency(neighbors) ==
    LET T == Among(neighbors)
        mountains == countMatching(neighbors, [t \in T |-> t.modifier = "mountain"])
        woods     == countMatching(neighbors, [t \in T |-> includes(t.features, "woods")])
    IN  createSource("Mountain", mountains, 2)
        \o createSource("Woods", woods, 2)

calculateTheaterSquareAdjacency(neighbors) ==
    LET T == Among(neighbors)
        wonders == countMatching(neighbors, [t \in T |-> t.wonder # "undefined"])
        entertainment ==
            countMatching(neighbors,
                [t \in T |-> t.district = "entertainment_complex"
                             \/ t.district = "water_park"])
    IN  createSource("Wonder", wonders, 2)
        \o createSource("Entertainment Complex / Water Park", entertainment, 4)

\* centerTile is <<>> when the district's own tile is not in the map
\* A faulty variant of calculateCommercialHubAdjacency: the river is looked
\* for on the neighbors, and counted per neighbor
calculateCommercialHubAdjacency_neighborRivers(neighbors, centerTile) ==
    LET T == Among(neighbors)
        harbors == countMatching(neighbors, [t \in T |-> t.district = "harbor"])
        rivers  == countMatching(neighbors, [t \in T |-> hasRiver(t)])
    IN  createSource("Harbor", harbors, 4)
        \o createSource("River", rivers, 4)

calculateCommercialHubAdjacency(neighbors, centerTile) ==
    LET T == Among(neighbors)
        harbors == countMatching(neighbors, [t \in T |-> t.district = "harbor"])
        hasRiverAdjacent == IF centerTile # <<>> THEN hasRiver(centerTile[1]) ELSE FALSE
    IN  createSource("Harbor", harbors, 4)
        \o (IF hasRiverAdjacent THEN createSource("River", 1, 4) ELSE <<>>)

\* A faulty variant of calculateIndustrialZoneAdjacency: a strategic
\* resource counts whether or not its tile is improved
calculateIndustrialZoneAdjacency_anyStrategic(neighbors) ==
    LET T == Among(neighbors)
        mines    == countMatching(neighbors, [t \in T |-> t.improvement = "mine"])
        quarries == countMatching(neighbors, [t \in T |-> t.improvement = "quarry"])
        strategicWithImprovement ==
            countMatching(neighbors,
                [t \in T |-> /\ t.resource # <<>>
                             /\ t.resource[1].type = "strategic"])
    IN  createSource("Mine", mines, 2)
        \o createSource("Quarry", quarries, 2)
        \o createSource("Strategic Resource (improved)", strategicWithImprovement, 4)

calculateIndustrialZoneAdjacency(neighbors) ==
    LET T == Among(neighbors)
        mines    == countMatching(neighbors, [t \in T |-> t.improvement = "mine"])
        quarries == countMatching(neighbors, [t \in T |-> t.improvement = "quarry"])
        strategicWithImprovement ==
            countMatching(neighbors,
                [t \in T |-> /\ t.resource # <<>>
                             /\ t.resource[1].type = "strategic"
                             /\ t.improvement # "undefined"])
    IN  createSource("Mine", mines, 2)
        \o createSource("Quarry", quarries, 2)
        \o createSource("Strategic Resource (improved)", strategicWithImprovement, 4)

\* A faulty variant of calculateHarborAdjacency: the city center is not
\* excluded from the other districts
calculateHarborAdjacency_cityCenterTwice(neighbors) ==
    LET T == Among(neighbors)
        cityCenters == countMatching(neighbors, [t \in T |-> t.district = "city_center"])
        otherDistricts ==
            countMatching(neighbors,
                [t \in T |-> /\ t.district # "undefined"
                             /\ includes(ADJACENCY_PROVIDING_DISTRICTS, t.district)])
    IN  createSource("City Center", cityCenters, 4)
        \o createSource("District", otherDistricts, 2)

calculateHarborAdjacency(neighbors) ==
    LET T == Among(neighbors)
        cityCenters == countMatching(neighbors, [t \in T |-> t.district = "city_center"])
        otherDistricts ==
            countMatching(neighbors,
                [t \in T |-> /\ t.district # "undefined"
                             /\ t.district # "city_center"
                             /\ includes(ADJACENCY_PROVIDING_DISTRICTS, t.district)])
    IN  createSource("City Center", cityCenters, 4)
        \o createSource("District", otherDistricts, 2)

calculateEncampmentAdjacency == <<>>

calculatePreserveAdjacency(neighbors) ==
    LET T == Among(neighbors)
        charmingTiles ==
            countMatching(neighbors,
                [t \in T |-> /\ t.improvement = "undefined"
                             /\ t.district = "undefined"
                             /\ \/ includes(t.features, "woods")
                                \/ t.modifier = "mountain"
                                \/ t.terrain = "coast"
                                \/ includes(t.features, "oasis")])
    IN  createSource("Unimproved Charming Tile", charmingTiles, 2)

(***************************************************************************)
(* Main calculation                                                        *)
(***************************************************************************)

\* A faulty variant of calculateDistrictBonus: a Government Plaza is left
\* to its own source and not counted among the districts
calculateDistrictBonus_noPlaza(neighbors, districtBonusMultiplier) ==
    LET adjacentDistricts ==
            countMatching(neighbors,
                [t \in Among(neighbors) |->
                    /\ t.district # "undefined"
                    /\ t.district # "government_plaza"
                    /\ includes(ADJACENCY_PROVIDING_DISTRICTS, t.district)])
    IN  createSource("District", adjacentDistricts, districtBonusMultiplier)

\* A faulty variant of calculateDistrictBonus: the multiplier of the
\* civilization is not used, every district is worth the default 0.5
calculateDistrictBonus_defaultMultiplier(neighbors, districtBonusMultiplier) ==
    LET adjacentDistricts ==
            countMatching(neighbors,
                [t \in Among(neighbors) |->
                    /\ t.district # "undefined"
                    /\ includes(ADJACENCY_PROVIDING_DISTRICTS, t.district)])
    IN  createSource("District", adjacentDistricts, 1)

calculateDistrictBonus(neighbors, districtBonusMultiplier) ==
    LET adjacentDistricts ==
            countMatching(neighbors,
                [t \in Among(neighbors) |->
                    /\ t.district # "undefined"
                    /\ includes(ADJACENCY_PROVIDING_DISTRICTS, t.district)])
    IN  createSource("District", adjacentDistricts, districtBonusMultiplier)

calculateGovernmentPlazaBonus(neighbors) ==
    LET govPlazas ==
            countMatching(neighbors,
                [t \in Among(neighbors) |-> t.district = "government_plaza"])
    IN  createSource("Government Plaza", govPlazas, 2)

\* for (const extra of custom.extraSources) { count; createSource; push }
RECURSIVE extraSourcesOf(_, _)
extraSourcesOf(neighbors, extraSources) ==
    IF extraSources = <<>> THEN <<>>
    ELSE LET extra == Head(extraSources)
             count == countMatching(neighbors,
                          [t \in Among(neighbors) |-> applyMatch(extra.match, t)])
         IN  createSource(extra.source, count, extra.bonusPerSource)
             \o extraSourcesOf(neighbors, Tail(extraSources))

\* if (civModifiers.customDistricts[d]) { the loop over its extraSources }
customDistrictSources(neighbors, civModifiers, d) ==
    IF d \in DOMAIN civModifiers.customDistricts
    THEN extraSourcesOf(neighbors, civModifiers.customDistricts[d].extraSources)
    ELSE <<>>

\* A faulty variant of featureBonusSources: each rainforest is worth 0.5
\* less than the table says
featureBonusSources_lessBase(neighbors, civModifiers, key) ==
    IF key \in DOMAIN civModifiers.featureBonuses
       /\ civModifiers.featureBonuses[key] # 0
    THEN LET rainforest ==
                 countMatching(neighbors,
                     [t \in Among(neighbors) |-> includes(t.features, "rainforest")])
         IN  createSource("Rainforest (Brazil)", rainforest,
                          civModifiers.featureBonuses[key] - 1)
    ELSE <<>>

\* if (civModifiers.featureBonuses[key]) { "Rainforest (Brazil)" source }
featureBonusSources(neighbors, civModifiers, key) ==
    IF key \in DOMAIN civModifiers.featureBonuses
       /\ civModifiers.featureBonuses[key] # 0
    THEN LET rainforest ==
                 countMatching(neighbors,
                     [t \in Among(neighbors) |-> includes(t.features, "rainforest")])
         IN  createSource("Rainforest (Brazil)", rainforest,
                          civModifiers.featureBonuses[key])
    ELSE <<>>

\* The switch on the district, for the cases that `break`
districtSources(d, neighbors, centerTile, civModifiers) ==
    CASE d = "campus" ->
           calculateCampusAdjacency(neighbors)
           \o customDistrictSources(neighbors, civModifiers, "campus")
      [] d = "holy_site" ->
           calculateHolySiteAdjacency(neighbors)
           \o featureBonusSources(neighbors, civModifiers, "rainforest_holy_site")
      [] d = "theater_square" ->
           calculateTheaterSquareAdjacency(neighbors)
           \o featureBonusSources(neighbors, civModifiers, "rainforest_theater_square")
      [] d = "commercial_hub" ->
           calculateCommercialHubAdjacency(neighbors, centerTile)
           \o featureBonusSources(neighbors, civModifiers, "rainforest_commercial_hub")
      [] d = "industrial_zone" ->
           calculateIndustrialZoneAdjacency(neighbors)
           \o customDistrictSources(neighbors, civModifiers, "industrial_zone")
      [] d = "encampment" -> calculateEncampmentAdjacency
      [] d = "preserve" -> calculatePreserveAdjacency(neighbors)
      [] OTHER -> <<>>

\* A faulty variant of reduceTotalBonus: each totalBonus is floored before
\* it is added
RECURSIVE reduceTotalBonus_flooredEach(_)
reduceTotalBonus_flooredEach(sources) ==
    IF sources = <<>> THEN 0
    ELSE 2 * (Head(sources).totalBonus \div 2)
         + reduceTotalBonus_flooredEach(Tail(sources))

\* sources.reduce((sum, s) => sum + s.totalBonus, 0), in halves
RECURSIVE reduceTotalBonus(_)
reduceTotalBonus(sources) ==
    IF sources = <<>> THEN 0
    ELSE Head(sources).totalBonus + reduceTotalBonus(Tail(sources))

\* A faulty variant of floor: Math.round, which takes x.5 up
floor_round(halves) == (halves + 1) \div 2

\* Math.floor of a value held in halves
floor(halves) == halves \div 2

\* case "harbor": the harbor's own sources, returned at once
harborResult(d, neighbors) ==
    LET harborSources == calculateHarborAdjacency(neighbors)
    IN  [ district |-> d,
          bonus |-> floor(reduceTotalBonus(harborSources)),
          breakdown |-> harborSources ]

\* A faulty variant of standardDistrictSources: the generic step is taken
\* for every district but the harbor
standardDistrictSources_everyDistrict(d, neighbors, districtBonusMultiplier) ==
    IF d # "harbor"
    THEN calculateDistrictBonus(neighbors, districtBonusMultiplier)
    ELSE <<>>

\* The generic district step: only for the STANDARD_DISTRICTS, harbor excepted
standardDistrictSources(d, neighbors, districtBonusMultiplier) ==
    IF d # "harbor" /\ includes(STANDARD_DISTRICTS, d)
    THEN calculateDistrictBonus(neighbors, districtBonusMultiplier)
    ELSE <<>>

\* The tail of calculateAdjacency: generic district source, Government
\* Plaza source, total, floor
totalResult(d, specific, neighbors, districtBonusMultiplier) ==
    LET sources ==
            specific
            \o standardDistrictSources(d, neighbors, districtBonusMultiplier)
            \o calculateGovernmentPlazaBonus(neighbors)
        rawTotal == reduceTotalBonus(sources)
    IN  [district |-> d, bonus |-> floor(rawTotal), breakdown |-> sources]

\* A faulty variant of governmentPlazaResult: the case breaks instead of
\* returning, and the common tail of calculateAdjacency runs
governmentPlazaResult_fallThrough(d, neighbors) ==
    totalResult(d, <<>>, neighbors, defaultModifiers.districtBonusMultiplier)

\* case "government_plaza": no adjacency at all, returned at once
governmentPlazaResult(d, neighbors) ==
    [district |-> d, bonus |-> 0, breakdown |-> <<>>]

calculateAdjacency(c, d, m, civ) ==
    LET neighbors    == getNeighborTiles(c, m)
        centerTile   == MapGet(m, coordKey(c))
        civModifiers == getCivModifiers(civ)
    IN  CASE d = "harbor" -> harborResult(d, neighbors)
          [] d = "government_plaza" -> governmentPlazaResult(d, neighbors)
          [] OTHER ->
               totalResult(d, districtSources(d, neighbors, centerTile, civModifiers),
                           neighbors, civModifiers.districtBonusMultiplier)

\* A call of calculateAdjacency with the argument list args: the function
\* declares four parameters (the fourth optional), so a fifth argument is
\* dropped and a missing fourth is undefined.
callCalculateAdjacency(args) ==
    calculateAdjacency(args[1], args[2], args[3],
                       IF Len(args) >= 4 THEN args[4] ELSE <<>>)

\* calculateAllAdjacencies: the districts it scores
districtsToCalculate ==
    << "campus", "holy_site", "theater_square", "commercial_hub",
       "industrial_zone", "harbor", "encampment", "entertainment_complex",
       "preserve" >>

\* The comparator of the sort, (a, b) => b.bonus - a.bonus
compareBonusAscending(a, b) == a.bonus - b.bonus

compareBonusDescending(a, b) == b.bonus - a.bonus

\* One step of Array.prototype.sort, which is stable: x, which came after
\* all of sorted, goes behind every element the comparator does not put
\* after it
RECURSIVE insertSorted(_, _)
insertSorted(sorted, x) ==
    IF sorted = <<>> THEN <<x>>
    ELSE IF compareBonusDescending(Head(sorted), x) <= 0
         THEN <<Head(sorted)>> \o insertSorted(Tail(sorted), x)
         ELSE <<x>> \o sorted

\* results.sort((a, b) => b.bonus - a.bonus)
RECURSIVE sortResults(_)
sortResults(list) ==
    IF list = <<>> THEN <<>>
    ELSE insertSorted(sortResults(SubSeq(list, 1, Len(list) - 1)), list[Len(list)])

calculateAllAdjacencies(c, m, civ) ==
    sortResults([i \in DOMAIN districtsToCalculate |->
                    calculateAdjacency(c, districtsToCalculate[i], m, civ)])

(***************************************************************************)
(* renderer/store.ts: the tiles of the game store.  The state keeps the    *)
(* fields that the tile actions and newGame touch, and two that they leave  *)
(* alone.  An updater given to zustand's set() returns either the state it  *)
(* was given (<<>>, and set() then changes nothing) or a partial state      *)
(* (<<partial>>, which set() merges into the state).                        *)
(***************************************************************************)

createEmptyState(now) ==
    [ currentTurn |-> 1,
      currentEra  |-> "ancient",
      tiles       |-> [k \in {} |-> 0],
      gold        |-> 0,
      lastUpdated |-> now ]

\* new Map(m).set(key, value)
MapSet(m, key, value) ==
    [k \in DOMAIN m \cup {key} |-> IF k = key THEN value ELSE m[k]]

\* { ...a, ...b }
spread(a, b) == b @@ a

\* zustand's set(): the state after an updater returned r
setState(s, r) == IF r = <<>> THEN s ELSE spread(s, r[1])

newGame(now) == << createEmptyState(now) >>

addTile(s, tile, now) ==
    << [ tiles |-> MapSet(s.tiles, coordKey(tile.coord),
                          spread(tile, [ plannedStates |-> <<>>,
                                         isLocked |-> FALSE,
                                         isPillaged |-> FALSE ])),
         lastUpdated |-> now ] >>

\* A faulty variant of updateTile: a missing tile is created from the updates
updateTile_upsert(s, c, updates, now) ==
    LET key == coordKey(c)
        existing == MapGet(s.tiles, key)
    IN  << [ tiles |-> MapSet(s.tiles, key,
                              IF existing = <<>> THEN updates
                              ELSE spread(existing[1], updates)),
             lastUpdated |-> now ] >>

updateTile(s, c, updates, now) ==
    LET key == coordKey(c)
        existing == MapGet(s.tiles, key)
    IN  IF existing = <<>> THEN <<>>
        ELSE << [ tiles |-> MapSet(s.tiles, key, spread(existing[1], updates)),
                  lastUpdated |-> now ] >>

addTilePlan(s, c, plan, id, now) ==
    LET key == coordKey(c)
        existing == MapGet(s.tiles, key)
    IN  IF existing = <<>> THEN <<>>
        ELSE << [ tiles |->
                    MapSet(s.tiles, key,
                           spread(existing[1],
                                  [plannedStates |->
                                      Append(existing[1].plannedStates,
                                             spread(plan, [id |-> id]))])),
                  lastUpdated |-> now ] >>

removeTilePlan(s, c, planId, now) ==
    LET key == coordKey(c)
        existing == MapGet(s.tiles, key)
    IN  IF existing = <<>> THEN <<>>
        ELSE << [ tiles |->
                    MapSet(s.tiles, key,
                           spread(existing[1],
                                  [plannedStates |->
                                      SelectSeq(existing[1].plannedStates,
                                                LAMBDA p : p.id # planId)])),
                  lastUpdated |-> now ] >>

lockTile(s, c, locked, now) ==
    LET key == coordKey(c)
        existing == MapGet(s.tiles, key)
    IN  IF existing = <<>> THEN <<>>
        ELSE << [ tiles |-> MapSet(s.tiles, key,
                                   spread(existing[1], [isLocked |-> locked])),
                  lastUpdated |-> now ] >>

(***************************************************************************)
(* renderer/utils/persistence.ts.  A Map is held as its keys in insertion  *)
(* order and its value for each key, a Set as its values in insertion      *)
(* order, a Date as the day since 1970-01-01 and the millisecond of that   *)
(* day (the time value is day * 86400000 + ms), a string that is computed   *)
(* as the sequence of its characters.                                      *)
(***************************************************************************)

\* Array.from(map.entries())
entries(map) == [i \in DOMAIN map.keys |-> <<map.keys[i], map.get[map.keys[i]]>>]

\* new Map(entries): each entry is set in turn
RECURSIVE NewMap(_)
NewMap(list) ==
    IF list = <<>> THEN [keys |-> <<>>, get |-> [k \in {} |-> 0]]
    ELSE LET m == NewMap(SubSeq(list, 1, Len(list) - 1))
             e == list[Len(list)]
         IN  [ keys |-> IF includes(m.keys, e[1]) THEN m.keys ELSE Append(m.keys, e[1]),
               get  |-> MapSet(m.get, e[1], e[2]) ]

\* new Set(values): each value is added in turn
RECURSIVE NewSet(_)
NewSet(list) ==
    IF list = <<>> THEN <<>>
    ELSE LET set == NewSet(SubSeq(list, 1, Len(list) - 1))
         IN  IF includes(set, list[Len(list)]) THEN set
             ELSE Append(set, list[Len(list)])

\* Array.from(set)
ArrayFromSet(set) == set

Digits == <<"0", "1", "2", "3", "4", "5", "6", "7", "8", "9">>

\* n in decimal, padded with zeros to the width
RECURSIVE padStart(_, _)
padStart(n, width) ==
    IF width = 0 THEN <<>>
    ELSE Append(padStart(n \div 10, width - 1), Digits[(n % 10) + 1])

\* The number that the digits of str from position `from` to `to` spell
RECURSIVE parseDigits(_, _, _)
parseDigits(str, from, to) ==
    IF to < from THEN 0
    ELSE 10 * parseDigits(str, from, to - 1)
         + ((CHOOSE i \in DOMAIN Digits : Digits[i] = str[to]) - 1)

\* The year, month and day of the proleptic Gregorian calendar for a day
\* since 1970-01-01
civilFromDays(day) ==
    LET z   == day + 719468
        era == z \div 146097
        doe == z - era * 146097
        yoe == (doe - (doe \div 1460) + (doe \div 36524) - (doe \div 146096)) \div 365
        doy == doe - (365 * yoe + (yoe \div 4) - (yoe \div 100))
        mp  == (5 * doy + 2) \div 153
        m   == IF mp < 10 THEN mp + 3 ELSE mp - 9
    IN  [ year  |-> yoe + era * 400 + (IF m <= 2 THEN 1 ELSE 0),
          month |-> m,
          date  |-> doy - ((153 * mp + 2) \div 5) + 1 ]

\* The day since 1970-01-01 of a year, month and day
daysFromCivil(year, month, date) ==
    LET y   == year - (IF month <= 2 THEN 1 ELSE 0)
        era == y \div 400
        yoe == y - era * 400
        doy == ((153 * (IF month > 2 THEN month - 3 ELSE month + 9) + 2) \div 5)
               + date - 1
        doe == yoe * 365 + (yoe \div 4) - (yoe \div 100) + doy
    IN  era * 146097 + doe - 719468

\* A faulty variant of toISOString: the milliseconds are cut off
toISOString_wholeSeconds(d) ==
    LET civil == civilFromDays(d.day) IN
    padStart(civil.year, 4) \o <<"-">> \o padStart(civil.month, 2) \o <<"-">>
    \o padStart(civil.date, 2) \o <<"T">>
    \o padStart(d.ms \div 3600000, 2) \o <<":">>
    \o padStart((d.ms \div 60000) % 60, 2) \o <<":">>
    \o padStart((d.ms \div 1000) % 60, 2) \o <<".">>
    \o padStart(0, 3) \o <<"Z">>

\* Date.prototype.toISOString: YYYY-MM-DDTHH:mm:ss.sssZ
toISOString(d) ==
    LET civil == civilFromDays(d.day) IN
    padStart(civil.year, 4) \o <<"-">> \o padStart(civil.month, 2) \o <<"-">>
    \o padStart(civil.date, 2) \o <<"T">>
    \o padStart(d.ms \div 3600000, 2) \o <<":">>
    \o padStart((d.ms \div 60000) % 60, 2) \o <<":">>
    \o padStart((d.ms \div 1000) % 60, 2) \o <<".">>
    \o padStart(d.ms % 1000, 3) \o <<"Z">>

\* new Date(str) of a string in that format
NewDate(str) ==
    [ day |-> daysFromCivil(parseDigits(str, 1, 4), parseDigits(str, 6, 7),
                            parseDigits(str, 9, 10)),
      ms  |-> parseDigits(str, 12, 13) * 3600000 + parseDigits(str, 15, 16) * 60000
              + parseDigits(str, 18, 19) * 1000 + parseDigits(str, 21, 23) ]

CURRENT_SCHEMA_VERSION == 1

serialize(state) ==
    [ schemaVersion      |-> CURRENT_SCHEMA_VERSION,
      setup              |-> state.setup,
      currentTurn        |-> state.currentTurn,
      currentEra         |-> state.currentEra,
      tiles              |-> entries(state.tiles),
      cities             |-> state.cities,
      completedTechs     |-> ArrayFromSet(state.completedTechs),
      completedCivics    |-> ArrayFromSet(state.completedCivics),
      currentTech        |-> state.currentTech,
      currentCivic       |-> state.currentCivic,
      techQueue          |-> state.techQueue,
      civicQueue         |-> state.civicQueue,
      policyLoadout      |-> state.policyLoadout,
      gold               |-> state.gold,
      faith              |-> state.faith,
      strategicResources |-> entries(state.strategicResources),
      aiCivs             |-> state.aiCivs,
      lastUpdated        |-> toISOString(state.lastUpdated) ]

deserialize(data) ==
    [ setup              |-> data.setup,
      currentTurn        |-> data.currentTurn,
      currentEra         |-> data.currentEra,
      tiles              |-> NewMap(data.tiles),
      cities             |-> data.cities,
      completedTechs     |-> NewSet(data.completedTechs),
      completedCivics    |-> NewSet(data.completedCivics),
      currentTech        |-> data.currentTech,
      currentCivic       |-> data.currentCivic,
      techQueue          |-> data.techQueue,
      civicQueue         |-> data.civicQueue,
      policyLoadout      |-> data.policyLoadout,
      gold               |-> data.gold,
      faith              |-> data.faith,
      strategicResources |-> NewMap(data.strategicResources),
      aiCivs             |-> data.aiCivs,
      lastUpdated        |-> NewDate(data.lastUpdated) ]

\* A faulty variant of getAdjacencyRating: the tiers end below 2 and 4
getAdjacencyRating_strict(bonus) ==
    IF bonus <= 0 THEN "Poor"
    ELSE IF bonus < 2 THEN "Decent"
    ELSE IF bonus < 4 THEN "Good"
    ELSE "Excellent"

getAdjacencyColor(bonus) ==
    IF bonus <= 0 THEN "#6b7280"
    ELSE IF bonus <= 2 THEN "#eab308"
    ELSE IF bonus <= 4 THEN "#f97316"
    ELSE "#22c55e"

getAdjacencyRating(bonus) ==
    IF bonus <= 0 THEN "Poor"
    ELSE IF bonus <= 2 THEN "Decent"
    ELSE IF bonus <= 4 THEN "Good"
    ELSE "Excellent"

(***************************************************************************)
(* Inputs: tiles, maps, civilization ids                                   *)
(***************************************************************************)

\* makeTile of adjacencyCalculator.test.ts: the fields not given take the
\* test's defaults
makeTile(partial) ==
    partial @@
    [ terrain |-> "grassland",
      modifier |-> "undefined",
      features |-> <<>>,
      resource |-> <<>>,
      riverEdges |-> <<FALSE, FALSE, FALSE, FALSE, FALSE, FALSE>>,
      improvement |-> "undefined",
      district |-> "undefined",
      wonder |-> "undefined",
      owningCityId |-> "undefined",
      isPillaged |-> FALSE,
      plannedStates |-> <<>>,
      isLocked |-> FALSE ]

\* new Map(tileList.map(t => [coordKey(t.coord), t]))
mapOf(tileList) ==
    [k \in {coordKey(tileList[i].coord) : i \in DOMAIN tileList} |->
        tileList[CHOOSE i \in DOMAIN tileList : coordKey(tileList[i].coord) = k]]

Resource(name, type, revealed) ==
    << [name |-> name, type |-> type, revealed |-> revealed] >>

\* The map of the Campus test
CampusTestMap ==
    mapOf(<< makeTile([coord |-> HexCoord(0, 0)]),
             makeTile([coord |-> HexCoord(1, 0), modifier |-> "mountain"]),
             makeTile([coord |-> HexCoord(1, -1), modifier |-> "mountain"]),
             makeTile([coord |-> HexCoord(0, -1), features |-> <<"rainforest">>]),
             makeTile([coord |-> HexCoord(-1, 0), district |-> "city_center"]),
             makeTile([coord |-> HexCoord(-1, 1), district |-> "holy_site"]) >>)

\* The map of the Industrial Zone test
IndustrialZoneTestMap ==
    mapOf(<< makeTile([coord |-> HexCoord(0, 0)]),
             makeTile([coord |-> HexCoord(1, 0), district |-> "aqueduct"]),
             makeTile([coord |-> HexCoord(1, -1), district |-> "dam"]),
             makeTile([coord |-> HexCoord(0, -1), district |-> "canal"]),
             makeTile([coord |-> HexCoord(-1, 0), improvement |-> "quarry"]),
             makeTile([coord |-> HexCoord(-1, 1),
                       resource |-> Resource("Iron", "strategic", FALSE)]),
             makeTile([coord |-> HexCoord(0, 1), improvement |-> "mine"]),
             makeTile([coord |-> HexCoord(1, 1), improvement |-> "lumber_mill"]) >>)

\* The map of the Harbor test
HarborTestMap ==
    mapOf(<< makeTile([coord |-> HexCoord(0, 0), terrain |-> "coast"]),
             makeTile([coord |-> HexCoord(1, 0), district |-> "city_center"]),
             makeTile([coord |-> HexCoord(1, -1), terrain |-> "coast",
                       resource |-> Resource("Fish", "bonus", TRUE)]),
             makeTile([coord |-> HexCoord(0, -1), terrain |-> "ocean",
                       resource |-> Resource("Crabs", "bonus", TRUE)]),
             makeTile([coord |-> HexCoord(-1, 0), district |-> "campus"]) >>)

\* A further map with the features and improvements the test maps lack
FeatureMap ==
    mapOf(<< makeTile([coord |-> HexCoord(0, 0),
                       riverEdges |-> <<FALSE, TRUE, FALSE, FALSE, FALSE, FALSE>>]),
             makeTile([coord |-> HexCoord(1, 0), terrain |-> "coast",
                       features |-> <<"reef">>]),
             makeTile([coord |-> HexCoord(1, -1), features |-> <<"geothermal">>]),
             makeTile([coord |-> HexCoord(0, -1), improvement |-> "farm"]),
             makeTile([coord |-> HexCoord(-1, 0), improvement |-> "plantation",
                       resource |-> Resource("Spices", "luxury", TRUE)]),
             makeTile([coord |-> HexCoord(-1, 1), district |-> "government_plaza"]),
             makeTile([coord |-> HexCoord(0, 1), district |-> "water_park",
                       terrain |-> "coast"]) >>)

TestMaps == {CampusTestMap, IndustrialZoneTestMap, HarborTestMap, FeatureMap}

\* The kinds of tile the generated maps are made of
TileKinds ==
    << [riverEdges |-> <<TRUE, FALSE, FALSE, FALSE, FALSE, FALSE>>],
       [modifier |-> "mountain"],
       [features |-> <<"rainforest">>],
       [features |-> <<"woods">>],
       [terrain |-> "coast", resource |-> Resource("Fish", "bonus", TRUE)],
       [district |-> "city_center"],
       [district |-> "campus"],
       [district |-> "government_plaza"],
       [district |-> "harbor", terrain |-> "coast"],
       [district |-> "entertainment_complex"],
       [improvement |-> "mine", resource |-> Resource("Iron", "strategic", TRUE)],
       [improvement |-> "quarry"],
       [improvement |-> "pasture"],
       [wonder |-> "stonehenge"] >>

\* The most tiles a generated map holds
MaxTiles == 2

\* The generated maps: up to MaxTiles tiles, of kinds in the order of
\* TileKinds, on the first neighbors of the origin
mapOfKinds(ks) ==
    mapOf([i \in DOMAIN ks |->
              makeTile([coord |-> hexNeighbors(HexCoord(0, 0))[i]] @@ TileKinds[ks[i]])])

GeneratedMaps ==
    UNION { { mapOfKinds(ks) :
                ks \in { s \in [1..n -> DOMAIN TileKinds] :
                           \A i \in 1..n, j \in 1..n : i <= j => s[i] <= s[j] } }
            : n \in 0..MaxTiles }

CivJapan     == <<"j", "a", "p", "a", "n">>
CivJapanCaps == <<"J", "a", "p", "a", "n">>
CivGermany   == <<"g", "e", "r", "m", "a", "n", "y">>
CivBrazil    == <<"b", "r", "a", "z", "i", "l">>
CivKorea     == <<"k", "o", "r", "e", "a">>
CivAustralia == <<"a", "u", "s", "t", "r", "a", "l", "i", "a">>
CivRussia    == <<"r", "u", "s", "s", "i", "a">>
CivMaya      == <<"m", "a", "y", "a">>
CivUnknown   == <<"r", "o", "m", "e">>
CivBrazilCaps == <<"B", "R", "A", "Z", "I", "L">>
CivMayaMixed  == <<"m", "A", "y", "A">>

\* The civilization ids calls are made with; <<>> is no id
CivIds ==
    { <<>>, CivJapan, CivJapanCaps, CivGermany, CivBrazil, CivKorea,
      CivAustralia, CivRussia, CivMaya, CivUnknown, CivBrazilCaps, CivMayaMixed }

\* The coordinates calls are made at
Centers == {HexCoord(0, 0), HexCoord(1, 0)}

(***************************************************************************)
(* The state machine: a map is given, calculateAdjacency is called on it,  *)
(* and then either called again with a policy multiplier or called again   *)
(* after one neighboring tile has been removed from the map.               *)
(***************************************************************************)

\* Nothing has been serialized
NoPersistCall ==
    /\ gameState = <<>>
    /\ serialized = <<>>
    /\ restored = <<>>

(***************************************************************************)
(* main/main.ts: the save file.  A file's content is the sequence of the   *)
(* chunks written to it; writeFileSync opens the file with flag "w", which *)
(* creates or truncates it, writes the data chunk by chunk and closes it.  *)
(***************************************************************************)

\* getSaveFilePath(), within userData
filePath == "game-state.json"

\* A faulty variant of tempPath: the save path itself
tempPath_samePath(path) == path

\* const tempPath = filePath + ".tmp"
tempPath(path) == path \o ".tmp"

Paths == {filePath, tempPath(filePath)}

\* fs.openSync(path, "w")
openTruncate(d, path) == [d EXCEPT ![path] = << <<>> >>]

\* fs.writeSync of the next chunk
appendChunk(d, path, chunk) == [d EXCEPT ![path] = << Append(d[path][1], chunk) >>]

\* fs.renameSync(from, to): to is replaced in one step
renameSync(d, from, to) ==
    IF from = to THEN d
    ELSE [d EXCEPT ![to] = d[from], ![from] = <<>>]

\* Nothing has been saved: no save file, no .tmp file
NoSave ==
    /\ disk = [path \in Paths |-> <<>>]
    /\ saving = <<>>

\* No store action has been called
NoStoreCall ==
    /\ store = createEmptyState(0)
    /\ storeCall = <<>>
    /\ clock = 0
    /\ uuid = 0

\* No helper function has been called
NoHelperCall ==
    /\ op = "none"
    /\ opArgs = <<>>
    /\ ret = <<>>
    /\ prevCall = <<>>

Init ==
    /\ tiles \in TestMaps \cup GeneratedMaps
    /\ pc = "ready"
    /\ coord = HexCoord(0, 0)
    /\ district = "undefined"
    /\ playerCiv = <<>>
    /\ result = <<>>
    /\ doubled = <<>>
    /\ before = <<>>
    /\ removed = <<>>
    /\ results = <<>>
    /\ NoHelperCall
    /\ NoStoreCall
    /\ NoPersistCall
    /\ NoSave

\* A faulty variant of Calculate: the call deletes the center tile from the
\* map it was given
Calculate_deletesCenter(c, d, civ) ==
    /\ pc = "ready"
    /\ coord' = c
    /\ district' = d
    /\ playerCiv' = civ
    /\ result' = << callCalculateAdjacency(<<c, d, tiles, civ>>) >>
    /\ tiles' = [k \in DOMAIN tiles \ {coordKey(c)} |-> tiles[k]]
    /\ pc' = "done"
    /\ UNCHANGED <<doubled, before, removed, results, helperVars, storeVars, persistVars, saveVars>>

Calculate(c, d, civ) ==
    /\ pc = "ready"
    /\ coord' = c
    /\ district' = d
    /\ playerCiv' = civ
    /\ result' = << callCalculateAdjacency(<<c, d, tiles, civ>>) >>
    /\ pc' = "done"
    /\ UNCHANGED <<tiles, doubled, before, removed, results, helperVars, storeVars, persistVars, saveVars>>

\* calculateAdjacency(center, district, tiles, civ, { policyMultiplier: 2 })
CalculateDoubled ==
    /\ pc = "done"
    /\ doubled' = << callCalculateAdjacency(
                        <<coord, district, tiles, playerCiv, [policyMultiplier |-> 2]>>) >>
    /\ pc' = "doubled"
    /\ UNCHANGED <<tiles, coord, district, playerCiv, result, before, removed,
                   results, helperVars, storeVars, persistVars, saveVars>>

\* tiles.delete(coordKey(hexNeighbors(coord)[i])), then the same call again
RemoveNeighbor(i) ==
    LET key == coordKey(hexNeighbors(coord)[i]) IN
    /\ pc = "done"
    /\ key \in DOMAIN tiles
    /\ tiles' = [k \in DOMAIN tiles \ {key} |-> tiles[k]]
    /\ removed' = <<tiles[key]>>
    /\ before' = result
    /\ result' = << callCalculateAdjacency(<<coord, district, tiles', playerCiv>>) >>
    /\ pc' = "deleted"
    /\ UNCHANGED <<coord, district, playerCiv, doubled, results, helperVars, storeVars, persistVars, saveVars>>

\* calculateAllAdjacencies(c, tiles, civ)
CalculateAll(c, civ) ==
    /\ pc = "ready"
    /\ coord' = c
    /\ playerCiv' = civ
    /\ results' = calculateAllAdjacencies(c, tiles, civ)
    /\ pc' = "all"
    /\ UNCHANGED <<tiles, district, result, doubled, before, removed, helperVars, storeVars, persistVars, saveVars>>

Next ==
    \/ \E c \in Centers, d \in DistrictType, civ \in CivIds : Calculate(c, d, civ)
    \/ CalculateDoubled
    \/ \E i \in DOMAIN directions : RemoveNeighbor(i)
    \/ \E c \in Centers, civ \in CivIds : CalculateAll(c, civ)

Spec == Init /\ [][Next]_vars

(***************************************************************************)
(* The calls of the helper functions: hexUtils and the tier of a bonus.    *)
(* Each behavior makes one call, and for hexNeighbors and hexDistance a    *)
(* second one on what the first one gave.                                  *)
(***************************************************************************)

\* Inputs: coordinates are within MaxCoord of the origin on both axes,
\* ranges go up to MaxRange, bonuses from -MaxBonus to MaxBonus
MaxCoord == 2
MaxRange == 2
MaxBonus == 6

Coords == { HexCoord(q, r) : q \in -MaxCoord..MaxCoord, r \in -MaxCoord..MaxCoord }

\* Fractional coordinates, in quarters
QuarterCoords ==
    { HexCoord(q, r) : q \in (-4 * MaxCoord)..(4 * MaxCoord),
                       r \in (-4 * MaxCoord)..(4 * MaxCoord) }

InitHelpers ==
    /\ tiles = mapOf(<<>>)
    /\ pc = "ready"
    /\ coord = HexCoord(0, 0)
    /\ district = "undefined"
    /\ playerCiv = <<>>
    /\ result = <<>>
    /\ doubled = <<>>
    /\ before = <<>>
    /\ removed = <<>>
    /\ results = <<>>
    /\ NoHelperCall
    /\ NoStoreCall
    /\ NoPersistCall
    /\ NoSave

\* A first call of the function f, with the arguments a, returning v
FirstCall(f, a, v) ==
    /\ op' = f
    /\ opArgs' = a
    /\ ret' = <<v>>
    /\ prevCall' = <<>>
    /\ UNCHANGED <<adjacencyVars, storeVars, persistVars, saveVars>>

\* A second call of the same function, with the arguments a, returning v
SecondCall(a, v) ==
    /\ prevCall' = <<[op |-> op, opArgs |-> opArgs, ret |-> ret]>>
    /\ opArgs' = a
    /\ ret' = <<v>>
    /\ UNCHANGED <<op, adjacencyVars, storeVars, persistVars, saveVars>>

CallHexNeighbors(c) ==
    /\ op = "none"
    /\ FirstCall("hexNeighbors", <<c>>, hexNeighbors(c))

\* hexNeighbors of the i-th neighbor that the first call returned
CallHexNeighborsOfNeighbor(i) ==
    /\ op = "hexNeighbors"
    /\ prevCall = <<>>
    /\ SecondCall(<<ret[1][i]>>, hexNeighbors(ret[1][i]))

CallHexDistance(a, b) ==
    /\ op = "none"
    /\ FirstCall("hexDistance", <<a, b>>, hexDistance(a, b))

\* hexDistance with the arguments of the first call exchanged
CallHexDistanceBack ==
    /\ op = "hexDistance"
    /\ prevCall = <<>>
    /\ SecondCall(<<opArgs[2], opArgs[1]>>, hexDistance(opArgs[2], opArgs[1]))

CallHexRound(c) ==
    /\ op = "none"
    /\ FirstCall("hexRound", <<c>>, hexRound(c))

CallHexesInRange(center, range) ==
    /\ op = "none"
    /\ FirstCall("hexesInRange", <<center, range>>, hexesInRange(center, range))

\* AdjacencyItem: the color and the rating of the bonus of a result
RenderAdjacencyItem(bonus) ==
    /\ op = "none"
    /\ FirstCall("AdjacencyItem", <<bonus>>,
                 [color |-> getAdjacencyColor(bonus),
                  rating |-> getAdjacencyRating(bonus)])

NextHelpers ==
    \/ \E c \in Coords : CallHexNeighbors(c)
    \/ \E i \in DOMAIN directions : CallHexNeighborsOfNeighbor(i)
    \/ \E a \in Coords, b \in Coords : CallHexDistance(a, b)
    \/ CallHexDistanceBack
    \/ \E c \in QuarterCoords : CallHexRound(c)
    \/ \E c \in Coords, range \in 0..MaxRange : CallHexesInRange(c, range)
    \/ \E bonus \in -MaxBonus..MaxBonus : RenderAdjacencyItem(bonus)

HelperSpec == InitHelpers /\ [][NextHelpers]_vars

(***************************************************************************)
(* The calls of the store's tile actions, any number of them in any order. *)
(***************************************************************************)

\* Inputs: the time goes up to MaxClock, uuidv4() hands out MaxPlans ids
MaxClock == 1
MaxPlans == 1

\* The coordinates that the actions are called with
StoreCoords == {HexCoord(0, 0), HexCoord(1, 0)}

\* What updateTile is called with: a Partial<Tile>
Updates ==
    { [district |-> "campus"] }
    \cup { [coord |-> c] : c \in StoreCoords }

\* What addTilePlan is called with: a plan without its id
Plans == { [trigger |-> "immediate", action |-> [type |-> "remove_feature"]] }

InitStore ==
    /\ tiles = mapOf(<<>>)
    /\ pc = "ready"
    /\ coord = HexCoord(0, 0)
    /\ district = "undefined"
    /\ playerCiv = <<>>
    /\ result = <<>>
    /\ doubled = <<>>
    /\ before = <<>>
    /\ removed = <<>>
    /\ results = <<>>
    /\ NoHelperCall
    /\ NoStoreCall
    /\ NoPersistCall
    /\ NoSave

\* The times that `new Date()` may read during the next action
Now == {t \in {clock, clock + 1} : t <= MaxClock}

\* The action `name`, addressed to c, whose updater returned r at time now
StoreAction(name, c, r, now) ==
    /\ store' = setState(store, r)
    /\ storeCall' = << [name |-> name, coord |-> c, before |-> store,
                        same |-> (r = <<>>)] >>
    /\ clock' = now
    /\ UNCHANGED <<adjacencyVars, helperVars, persistVars, saveVars>>

NewGame ==
    \E now \in Now :
        /\ storeCall # <<>>
        /\ StoreAction("newGame", HexCoord(0, 0), newGame(now), now)
        /\ UNCHANGED uuid

AddTile(c) ==
    \E now \in Now :
        /\ StoreAction("addTile", c, addTile(store, makeTile([coord |-> c]), now), now)
        /\ UNCHANGED uuid

UpdateTile(c, updates) ==
    \E now \in Now :
        /\ StoreAction("updateTile", c, updateTile(store, c, updates, now), now)
        /\ UNCHANGED uuid

\* addTilePlan; uuidv4() is called when the tile exists
AddTilePlan(c, plan) ==
    \E now \in Now :
        /\ uuid < MaxPlans
        /\ StoreAction("addTilePlan", c,
                       addTilePlan(store, c, plan, uuid + 1, now), now)
        /\ uuid' = IF coordKey(c) \in DOMAIN store.tiles THEN uuid + 1 ELSE uuid

RemoveTilePlan(c, planId) ==
    \E now \in Now :
        /\ StoreAction("removeTilePlan", c,
                       removeTilePlan(store, c, planId, now), now)
        /\ UNCHANGED uuid

LockTile(c, locked) ==
    \E now \in Now :
        /\ StoreAction("lockTile", c, lockTile(store, c, locked, now), now)
        /\ UNCHANGED uuid

NextStore ==
    \/ NewGame
    \/ \E c \in StoreCoords : AddTile(c)
    \/ \E c \in StoreCoords, updates \in Updates : UpdateTile(c, updates)
    \/ \E c \in StoreCoords, plan \in Plans : AddTilePlan(c, plan)
    \/ \E c \in StoreCoords, planId \in 1..MaxPlans : RemoveTilePlan(c, planId)
    \/ \E c \in StoreCoords, locked \in BOOLEAN : LockTile(c, locked)

StoreSpec == InitStore /\ [][NextStore]_vars

(***************************************************************************)
(* serialize and deserialize of a game state                               *)
(***************************************************************************)

\* Dates: 1970-01-01T00:00:00.000Z, the dates of the two test files,
\* the end of a leap day, the first of March of a leap year and of a common
\* year, a new year's eve
DateSamples ==
    { [day |-> 0, ms |-> 0],
      [day |-> 18262, ms |-> 0],
      [day |-> 20454, ms |-> 0],
      [day |-> 19782, ms |-> 86399999],
      [day |-> 11017, ms |-> 45296789],
      [day |-> 19417, ms |-> 1],
      [day |-> 10956, ms |-> 86399000] }

TileMapSamples ==
    { NewMap(<<>>),
      NewMap(<< <<"0,0", makeTile([coord |-> HexCoord(0, 0)])>> >>),
      NewMap(<< <<"1,0", makeTile([coord |-> HexCoord(1, 0), district |-> "campus"])>>,
                <<"0,0", makeTile([coord |-> HexCoord(0, 0)])>> >>) }

TechSamples == { <<>>, <<"writing">>, <<"writing", "mining">>, <<"mining", "writing">> }

CivicSamples == { <<>>, <<"foreign_trade">> }

ResourceSamples ==
    { NewMap(<<>>), NewMap(<< <<"iron", 2>> >>),
      NewMap(<< <<"niter", 0>>, <<"iron", 2>> >>) }

GameStates ==
    { [ setup              |-> [playerCiv |-> "rome", victoryType |-> "science"],
        currentTurn        |-> 1,
        currentEra         |-> "ancient",
        tiles              |-> t,
        cities             |-> <<>>,
        completedTechs     |-> techs,
        completedCivics    |-> civics,
        currentTech        |-> "undefined",
        currentCivic       |-> "undefined",
        techQueue          |-> <<>>,
        civicQueue         |-> <<>>,
        policyLoadout      |-> [government |-> "chiefdom"],
        gold               |-> 0,
        faith              |-> 0,
        strategicResources |-> res,
        aiCivs             |-> <<>>,
        lastUpdated        |-> date ] :
        t \in TileMapSamples, techs \in TechSamples, civics \in CivicSamples,
        res \in ResourceSamples, date \in DateSamples }

InitPersist ==
    /\ tiles = mapOf(<<>>)
    /\ pc = "ready"
    /\ coord = HexCoord(0, 0)
    /\ district = "undefined"
    /\ playerCiv = <<>>
    /\ result = <<>>
    /\ doubled = <<>>
    /\ before = <<>>
    /\ removed = <<>>
    /\ results = <<>>
    /\ NoHelperCall
    /\ NoStoreCall
    /\ NoSave
    /\ gameState \in { <<state>> : state \in GameStates }
    /\ serialized = <<>>
    /\ restored = <<>>

Serialize ==
    /\ serialized = <<>>
    /\ serialized' = << serialize(gameState[1]) >>
    /\ UNCHANGED <<gameState, restored, adjacencyVars, helperVars, storeVars, saveVars>>

Deserialize ==
    /\ serialized # <<>>
    /\ restored = <<>>
    /\ restored' = << deserialize(serialized[1]) >>
    /\ UNCHANGED <<gameState, serialized, adjacencyVars, helperVars, storeVars, saveVars>>

NextPersist ==
    \/ Serialize
    \/ Deserialize

PersistSpec == InitPersist /\ [][NextPersist]_vars

(***************************************************************************)
(* What the properties are stated with: the calls a state records, and     *)
(* counts taken directly on the map (by key, without the calculator's      *)
(* helpers).                                                               *)
(***************************************************************************)

Origin == HexCoord(0, 0)

\* The map as it was before RemoveNeighbor
tilesBefore ==
    IF removed = <<>> THEN tiles
    ELSE (coordKey(removed[1].coord) :> removed[1]) @@ tiles

\* The calls of calculateAdjacency(coord, district, m, playerCiv) made so
\* far, each with the map m it was given and the result r it returned
Observed ==
    (IF result # <<>> THEN {[m |-> tiles, r |-> result[1]]} ELSE {})
    \cup (IF doubled # <<>> THEN {[m |-> tiles, r |-> doubled[1]]} ELSE {})
    \cup (IF before # <<>> THEN {[m |-> tilesBefore, r |-> before[1]]} ELSE {})

\* The keys of the six neighbors of c that the map m holds
PresentNeighbors(c, m) ==
    { coordKey(HexCoord(c.q + d[1], c.r + d[2])) :
        d \in {<<1, 0>>, <<1, -1>>, <<0, -1>>, <<-1, 0>>, <<-1, 1>>, <<0, 1>>} }
    \cap DOMAIN m

HasFeature(t, f) == \E i \in DOMAIN t.features : t.features[i] = f

NumMountains(c, m) ==
    Cardinality({k \in PresentNeighbors(c, m) : m[k].modifier = "mountain"})

NumFeature(c, m, f) ==
    Cardinality({k \in PresentNeighbors(c, m) : HasFeature(m[k], f)})

NumDistrict(c, m, d) ==
    Cardinality({k \in PresentNeighbors(c, m) : m[k].district = d})

\* Neighbors carrying a district of the adjacency-providing list
NumDistricts(c, m) ==
    Cardinality({k \in PresentNeighbors(c, m) :
                    \E i \in DOMAIN ADJACENCY_PROVIDING_DISTRICTS :
                        ADJACENCY_PROVIDING_DISTRICTS[i] = m[k].district})

\* The sum of the totalBonus of the entries of a breakdown, in halves
RECURSIVE SumUpTo(_, _)
SumUpTo(b, n) == IF n = 0 THEN 0 ELSE SumUpTo(b, n - 1) + b[n].totalBonus

RawTotal(b) == SumUpTo(b, Len(b))

\* The entries of a breakdown with a given source label
Entries(b, label) == {i \in DOMAIN b : b[i].source = label}

Entry(source, count, bonusPerSource) ==
    [ source |-> source, count |-> count, bonusPerSource |-> bonusPerSource,
      totalBonus |-> count * bonusPerSource ]

(***************************************************************************)
(* C1                                                                      *)
(***************************************************************************)

\* C1: every result satisfies bonus == floor(sum of totalBonus over its
\* breakdown): the sum, in halves, divided by two and rounded down.
C1_BonusIsFloorOfBreakdown ==
    \A o \in Observed :
        /\ 2 * o.r.bonus <= RawTotal(o.r.breakdown)
        /\ RawTotal(o.r.breakdown) < 2 * o.r.bonus + 2

\* a result whose breakdown sums to a fractional value (3.5) above 1
C1_Witness ==
    /\ pc = "done"
    /\ Len(result[1].breakdown) >= 2
    /\ RawTotal(result[1].breakdown) = 7
    /\ result[1].bonus = 3

(***************************************************************************)
(* C2                                                                      *)
(***************************************************************************)

\* C2: after any one of the six neighboring tiles is deleted from the map,
\* the call returns a result for the same district, and its bonus is less
\* than or equal to the bonus before the deletion.
C2_RemovalNeverIncreases ==
    pc = "deleted" =>
        /\ Len(result) = 1
        /\ result[1].district = district
        /\ result[1].bonus <= before[1].bonus

\* a removal that lowered the bonus of a preserve, the map then being empty
C2_Witness ==
    /\ pc = "deleted"
    /\ district = "preserve"
    /\ DOMAIN tiles = {}
    /\ result[1].bonus = 0
    /\ before[1].bonus = 1

(***************************************************************************)
(* C3                                                                      *)
(***************************************************************************)

CampusTotal(c, m) ==
    2 * NumMountains(c, m) + 2 * NumFeature(c, m, "rainforest")
    + 2 * NumFeature(c, m, "reef") + 2 * NumFeature(c, m, "geothermal")
    + NumDistricts(c, m) + 2 * NumDistrict(c, m, "government_plaza")

\* C3: with no civilization, the campus bonus is floor(M + R + F + G + 0.5*D
\* + P) over the neighbors present in the map; on the map of the Campus test
\* (2 mountains, 1 rainforest, 1 city center, 1 holy site) it is 4, with
\* sources Mountain 2, Rainforest 1 and District 1.
C3_CampusFormula ==
    \A o \in Observed :
        (district = "campus" /\ playerCiv = <<>>) =>
            /\ o.r.bonus = CampusTotal(coord, o.m) \div 2
            /\ (o.m = CampusTestMap /\ coord = Origin) =>
                  /\ o.r.bonus = 4
                  /\ o.r.breakdown = << Entry("Mountain", 2, 2),
                                        Entry("Rainforest", 1, 2),
                                        Entry("District", 2, 1) >>

C3_Witness ==
    /\ pc = "done"
    /\ tiles = CampusTestMap
    /\ coord = Origin
    /\ district = "campus"
    /\ playerCiv = <<>>
    /\ result[1].bonus = 4

(***************************************************************************)
(* C4, C5, C6: the expectations of the Industrial Zone and Harbor tests    *)
(***************************************************************************)

\* C4: industrial_zone at (0,0), no civilization, on the map of the
\* Industrial Zone test (aqueduct, dam, canal, quarry, strategic resource,
\* mine, lumber mill) returns bonus 10.
C4_IndustrialZoneTen ==
    ( /\ pc = "done"
      /\ tiles = IndustrialZoneTestMap
      /\ coord = Origin
      /\ district = "industrial_zone"
      /\ playerCiv = <<>> ) => result[1].bonus = 10

\* C5: the call made with { policyMultiplier: 2 } returns baseBonus equal to
\* the bonus computed without the multiplier and bonus equal to twice it.
C5_PolicyMultiplierDoubles ==
    pc = "doubled" =>
        /\ "baseBonus" \in DOMAIN doubled[1]
        /\ doubled[1].baseBonus = result[1].bonus
        /\ doubled[1].bonus = 2 * result[1].bonus

\* C6: harbor at the coastal center of the Harbor test map (one city center,
\* two sea-resource tiles, one campus) returns bonus 5.
C6_HarborFive ==
    ( /\ pc = "done"
      /\ tiles = HarborTestMap
      /\ coord = Origin
      /\ district = "harbor" ) => result[1].bonus = 5

(***************************************************************************)
(* C7                                                                      *)
(***************************************************************************)

\* The harbor's breakdown as the rule table gives it: City Center +2 each,
\* then any other adjacency-providing district +1 each
HarborBreakdown(c, m) ==
    LET cc == NumDistrict(c, m, "city_center")
        od == NumDistricts(c, m) - cc
    IN  (IF cc > 0 THEN <<Entry("City Center", cc, 4)>> ELSE <<>>)
        \o (IF od > 0 THEN <<Entry("District", od, 2)>> ELSE <<>>)

C8_GovernmentPlazaZero ==
    \A o \in Observed :
        district = "government_plaza" =>
            /\ o.r.bonus = 0
            /\ o.r.breakdown = <<>>
            /\ o.r.district = "government_plaza"

\* a government plaza of japan with two districts next to it, one of them
\* a government plaza
C8_Witness ==
    /\ pc = "done"
    /\ district = "government_plaza"
    /\ playerCiv = CivJapan
    /\ NumDistricts(coord, tiles) = 2
    /\ NumDistrict(coord, tiles, "government_plaza") = 1
    /\ result[1].bonus = 0

(***************************************************************************)
(* C9                                                                      *)
(***************************************************************************)

\* The districts that take the generic District source
GenericTargets ==
    { "campus", "holy_site", "theater_square", "commercial_hub",
      "industrial_zone", "encampment", "entertainment_complex", "water_park",
      "aerodrome", "spaceport", "neighborhood", "preserve",
      "diplomatic_quarter" }

\* The districts that take none, besides harbor and government_plaza
InfrastructureTargets == {"city_center", "aqueduct", "dam", "canal"}

\* The result has one District entry, and it counts all the neighbors that
\* carry an adjacency-providing district
HasGenericDistrictSource(o) ==
    /\ Cardinality(Entries(o.r.breakdown, "District")) = 1
    /\ \A i \in Entries(o.r.breakdown, "District") :
          o.r.breakdown[i].count = NumDistricts(coord, o.m)

RemovedPlainPlaza ==
    /\ removed # <<>>
    /\ removed[1] = makeTile([coord |-> removed[1].coord,
                              district |-> "government_plaza"])

\* What removing the tile took off the total before flooring, in halves
RemovalLoss == RawTotal(before[1].breakdown) - RawTotal(result[1].breakdown)

\* The result has a Government Plaza entry worth 1 per neighboring plaza
HasPlazaSource(o) ==
    /\ Cardinality(Entries(o.r.breakdown, "Government Plaza")) = 1
    /\ \A i \in Entries(o.r.breakdown, "Government Plaza") :
          o.r.breakdown[i] =
              Entry("Government Plaza",
                    NumDistrict(coord, o.m, "government_plaza"), 2)

\* A neighboring plaza is counted in the District source and in the
\* Government Plaza source, and with no civilization one plaza is worth 1.5
PlazaCountedTwice ==
    /\ \A o \in Observed :
          NumDistrict(coord, o.m, "government_plaza") > 0 =>
              HasGenericDistrictSource(o) /\ HasPlazaSource(o)
    /\ (pc = "deleted" /\ RemovedPlainPlaza /\ playerCiv = <<>>)
          => RemovalLoss = 3

CaseVariants ==
    { [given |-> CivJapanCaps,  lower |-> CivJapan],
      [given |-> CivBrazilCaps, lower |-> CivBrazil],
      [given |-> CivMayaMixed,  lower |-> CivMaya] }

\* C11: civilization ids are resolved case-insensitively and unknown ids
\* fall back to the defaults: a call with an id that differs only in letter
\* case from a known id returns the same result as with the lower-case id,
\* and a call with an unrecognized or absent id returns the same result as
\* a call with no civilization.
C11_CaseInsensitiveWithFallback ==
    \A o \in Observed :
        /\ \A v \in CaseVariants :
              playerCiv = v.given =>
                  o.r = calculateAdjacency(coord, district, o.m, v.lower)
        /\ playerCiv = CivUnknown =>
              o.r = calculateAdjacency(coord, district, o.m, <<>>)

\* a theater square next to a rainforest scored for "BRAZIL": the
\* rainforest counts, as it does for "brazil" and does not without a
\* civilization
C11_Witness ==
    /\ pc = "done"
    /\ playerCiv = CivBrazilCaps
    /\ district = "theater_square"
    /\ NumFeature(coord, tiles, "rainforest") = 1
    /\ result[1].bonus = 1
    /\ calculateAdjacency(coord, district, tiles, <<>>).bonus = 0

(***************************************************************************)
(* C12                                                                     *)
(***************************************************************************)

\* What one adjacent district is worth in the District source, in halves
DistrictWorth(civ) == IF civ \in {CivJapan, CivJapanCaps} THEN 2 ELSE 1

\* C12: the generic District source uses 0.5 per adjacent district for the
\* default civilization and 1.0 for japan; for every other civilization of
\* the table the multiplier is 0.5.
\* (The harbor has a District source of its own rule, which is not the
\* generic one.)
C12_DistrictMultiplier ==
    \A o \in Observed :
        district # "harbor" =>
            \A i \in Entries(o.r.breakdown, "District") :
                /\ o.r.breakdown[i].bonusPerSource = DistrictWorth(playerCiv)
                /\ o.r.breakdown[i].totalBonus =
                      NumDistricts(coord, o.m) * DistrictWorth(playerCiv)

\* an entertainment complex of japan next to two districts: 2, where the
\* default gives 1
C12_Witness ==
    /\ pc = "done"
    /\ playerCiv = CivJapan
    /\ district = "entertainment_complex"
    /\ NumDistricts(coord, tiles) = 2
    /\ result[1].breakdown = <<Entry("District", 2, 2)>>
    /\ result[1].bonus = 2

(***************************************************************************)
(* C13                                                                     *)
(***************************************************************************)

\* The nine districts that are scored, in the order of the fixed list
ScoredOrder ==
    << "campus", "holy_site", "theater_square", "commercial_hub",
       "industrial_zone", "harbor", "encampment", "entertainment_complex",
       "preserve" >>

PlaceInScoredOrder(d) == CHOOSE k \in DOMAIN ScoredOrder : ScoredOrder[k] = d

\* C13: calculateAllAdjacencies returns exactly one result for each of the
\* nine districts it scores, each equal to what calculateAdjacency returns
\* for that district, ordered by non-increasing bonus, and results of equal
\* bonus keep the relative order of the fixed list.
C13_AllAdjacenciesSortedStable ==
    pc = "all" =>
        /\ Len(results) = Len(ScoredOrder)
        /\ \A k \in DOMAIN ScoredOrder :
              Cardinality({i \in DOMAIN results :
                              results[i].district = ScoredOrder[k]}) = 1
        /\ \A i \in DOMAIN results :
              results[i] =
                  calculateAdjacency(coord, results[i].district, tiles, playerCiv)
        /\ \A i, j \in DOMAIN results :
              i < j =>
                  /\ results[i].bonus >= results[j].bonus
                  /\ results[i].bonus = results[j].bonus =>
                        PlaceInScoredOrder(results[i].district)
                            < PlaceInScoredOrder(results[j].district)

\* a call whose sort moved the industrial zone to the front, ahead of the
\* campus, and left districts of equal bonus behind it
C13_Witness ==
    /\ pc = "all"
    /\ results[1].district = "industrial_zone"
    /\ results[1].bonus > results[2].bonus
    /\ results[2].district = "campus"
    /\ results[2].bonus = results[3].bonus
    /\ results[2].bonus > results[9].bonus

(***************************************************************************)
(* C14                                                                     *)
(***************************************************************************)

\* C14: for every integer bonus, getAdjacencyColor and getAdjacencyRating
\* classify it into the same tier: at most 0 is gray #6b7280 / Poor, 1 to 2
\* is yellow #eab308 / Decent, 3 to 4 is orange #f97316 / Good, 5 and above
\* is green #22c55e / Excellent.
C14_ColorAndRatingSameTier ==
    op = "AdjacencyItem" =>
        LET bonus == opArgs[1] IN
        ret[1] =
            CASE bonus \in -MaxBonus..0 -> [color |-> "#6b7280", rating |-> "Poor"]
              [] bonus \in 1..2         -> [color |-> "#eab308", rating |-> "Decent"]
              [] bonus \in 3..4         -> [color |-> "#f97316", rating |-> "Good"]
              [] bonus \in 5..MaxBonus  -> [color |-> "#22c55e", rating |-> "Excellent"]

\* a bonus of 2, the last of its tier: yellow and Decent
C14_Witness ==
    /\ op = "AdjacencyItem"
    /\ opArgs = <<2>>
    /\ ret = <<[color |-> "#eab308", rating |-> "Decent"]>>

(***************************************************************************)
(* C15                                                                     *)
(***************************************************************************)

\* C15: hexNeighbors(c) returns exactly six coordinates, in the fixed order
\* E (q+1, r), NE (q+1, r-1), NW (q, r-1), W (q-1, r), SW (q-1, r+1),
\* SE (q, r+1), for every c.
C15_SixNeighborsInOrder ==
    op = "hexNeighbors" =>
        LET c == opArgs[1] IN
        ret[1] = << [q |-> c.q + 1, r |-> c.r],
                    [q |-> c.q + 1, r |-> c.r - 1],
                    [q |-> c.q,     r |-> c.r - 1],
                    [q |-> c.q - 1, r |-> c.r],
                    [q |-> c.q - 1, r |-> c.r + 1],
                    [q |-> c.q,     r |-> c.r + 1] >>

\* the neighbors of (-2, 1), a first call
C15_Witness ==
    /\ op = "hexNeighbors"
    /\ prevCall = <<>>
    /\ opArgs = <<[q |-> -2, r |-> 1]>>
    /\ Len(ret[1]) = 6
    /\ ret[1][2] = [q |-> -1, r |-> 0]
    /\ ret[1][5] = [q |-> -3, r |-> 2]

(***************************************************************************)
(* C16                                                                     *)
(***************************************************************************)

\* C16: being neighbors is symmetric: for every coordinate C and every N in
\* hexNeighbors(C), C is in hexNeighbors(N).
C16_NeighborSymmetry ==
    (op = "hexNeighbors" /\ prevCall # <<>>) =>
        LET C == prevCall[1].opArgs[1]
            N == opArgs[1]
        IN  /\ \E i \in DOMAIN prevCall[1].ret[1] : prevCall[1].ret[1][i] = N
            /\ \E k \in DOMAIN ret[1] : ret[1][k] = C

\* (3, -3), the northeast neighbor of (2, -2), has (2, -2) to its southwest
C16_Witness ==
    /\ op = "hexNeighbors"
    /\ prevCall # <<>>
    /\ prevCall[1].opArgs = <<[q |-> 2, r |-> -2]>>
    /\ opArgs = <<[q |-> 3, r |-> -3]>>
    /\ ret[1][5] = [q |-> 2, r |-> -2]

(***************************************************************************)
(* C17                                                                     *)
(***************************************************************************)

\* b is one step from a in one of the six directions
OneStepApart(a, b) ==
    <<b.q - a.q, b.r - a.r>> \in
        {<<1, 0>>, <<1, -1>>, <<0, -1>>, <<-1, 0>>, <<-1, 1>>, <<0, 1>>}

\* C17: on integer coordinates hexDistance is integer-valued, with
\* hexDistance(a, a) = 0, hexDistance(a, b) = hexDistance(b, a), and
\* hexDistance(a, n) = 1 for every n in hexNeighbors(a).  (The returned
\* number is held in halves: an integer is an even number of halves.)
C17_DistanceIsMetric ==
    op = "hexDistance" =>
        LET a == opArgs[1]
            b == opArgs[2]
            d == ret[1]
        IN  /\ d % 2 = 0
            /\ d >= 0
            /\ a = b => d = 0
            /\ OneStepApart(a, b) => d = 2
            /\ prevCall # <<>> => d = prevCall[1].ret[1]

\* from (-2, 1) to its northeast neighbor (-1, 0) and back: 1 both ways
C17_Witness ==
    /\ op = "hexDistance"
    /\ prevCall # <<>>
    /\ prevCall[1].opArgs = <<[q |-> -2, r |-> 1], [q |-> -1, r |-> 0]>>
    /\ prevCall[1].ret = <<2>>
    /\ opArgs = <<[q |-> -1, r |-> 0], [q |-> -2, r |-> 1]>>
    /\ ret = <<2>>

(***************************************************************************)
(* C18                                                                     *)
(***************************************************************************)

\* C18: hexRound is the identity on integer coordinates.  (The argument is
\* held in quarters: an integer is a multiple of four quarters.)
C18_RoundIsIdentityOnIntegers ==
    (op = "hexRound" /\ opArgs[1].q % 4 = 0 /\ opArgs[1].r % 4 = 0) =>
        ret[1] = [q |-> opArgs[1].q \div 4, r |-> opArgs[1].r \div 4]

\* hexRound of (-2, 1)
C18_Witness ==
    /\ op = "hexRound"
    /\ opArgs = <<[q |-> -8, r |-> 4]>>
    /\ ret = <<[q |-> -2, r |-> 1]>>

(***************************************************************************)
(* C19                                                                     *)
(***************************************************************************)

\* The coordinates within n of c on both axes
Around(c, n) == { HexCoord(q, r) : q \in (c.q - n)..(c.q + n), r \in (c.r - n)..(c.r + n) }

\* C19: for every center and every range >= 0, hexesInRange lists, without
\* duplicates, exactly the coordinates whose hexDistance from the center is
\* at most range; the list contains the center and has
\* 1 + 3 * range * (range + 1) elements.
C19_HexesInRangeIsTheDisk ==
    op = "hexesInRange" =>
        LET center == opArgs[1]
            range  == opArgs[2]
            list   == ret[1]
        IN  /\ \A i, j \in DOMAIN list : list[i] = list[j] => i = j
            /\ \A i \in DOMAIN list : hexDistance(center, list[i]) <= 2 * range
            /\ \A c \in Around(center, range + 1) :
                  hexDistance(center, c) <= 2 * range =>
                      \E i \in DOMAIN list : list[i] = c
            /\ \E i \in DOMAIN list : list[i] = center
            /\ Len(list) = 1 + 3 * range * (range + 1)

\* the 19 hexes within 2 of (1, -2)
C19_Witness ==
    /\ op = "hexesInRange"
    /\ opArgs = <<[q |-> 1, r |-> -2], 2>>
    /\ Len(ret[1]) = 19
    /\ ret[1][1] = [q |-> -1, r |-> -2]
    /\ ret[1][19] = [q |-> 3, r |-> -2]

(***************************************************************************)
(* C20                                                                     *)
(***************************************************************************)

NumImprovement(c, m, imp) ==
    Cardinality({k \in PresentNeighbors(c, m) : m[k].improvement = imp})

\* Neighbors with a strategic resource and some improvement
NumStrategicImproved(c, m) ==
    Cardinality({k \in PresentNeighbors(c, m) :
                    /\ m[k].resource # <<>>
                    /\ m[k].resource[1].type = "strategic"
                    /\ m[k].improvement # "undefined"})

\* The entries of a breakdown with a label of the set, in their order
RECURSIVE OnlyLabels(_, _)
OnlyLabels(b, labels) ==
    IF b = <<>> THEN <<>>
    ELSE (IF Head(b).source \in labels THEN <<Head(b)>> ELSE <<>>)
         \o OnlyLabels(Tail(b), labels)

\* An entry for a positive count, none for zero
EntryIfAny(source, count, bonusPerSource) ==
    IF count > 0 THEN <<Entry(source, count, bonusPerSource)>> ELSE <<>>

OwnTileHasRiver(c, m) ==
    /\ coordKey(c) \in DOMAIN m
    /\ \E i \in DOMAIN m[coordKey(c)].riverEdges : m[coordKey(c)].riverEdges[i]

\* Neighbors with a river edge
NumRiverNeighbors(c, m) ==
    Cardinality({k \in PresentNeighbors(c, m) :
                    \E i \in DOMAIN m[k].riverEdges : m[k].riverEdges[i]})

\* C21: the Commercial Hub river bonus is +2 exactly once, present if and
\* only if the target coordinate's own tile is in the map and has at least
\* one river edge; river edges on neighboring tiles never change the result.
C21_RiverOnceFromOwnTile ==
    \A o \in Observed :
        district = "commercial_hub" =>
            OnlyLabels(o.r.breakdown, {"River"})
                = (IF OwnTileHasRiver(coord, o.m)
                   THEN <<Entry("River", 1, 4)>> ELSE <<>>)

\* a commercial hub on a tile without a river, next to a tile with one:
\* no River source
C21_WitnessNeighborRiver ==
    /\ pc = "done"
    /\ district = "commercial_hub"
    /\ coord = Origin
    /\ ~OwnTileHasRiver(coord, tiles)
    /\ NumRiverNeighbors(coord, tiles) = 1
    /\ result[1].breakdown = <<>>

\* a commercial hub on a river tile that also has a river tile next to it:
\* +2, once
C21_Witness ==
    /\ pc = "done"
    /\ district = "commercial_hub"
    /\ playerCiv = <<>>
    /\ OwnTileHasRiver(coord, tiles)
    /\ NumRiverNeighbors(coord, tiles) = 1
    /\ result[1].breakdown = <<Entry("River", 1, 4)>>
    /\ result[1].bonus = 2

(***************************************************************************)
(* C22                                                                     *)
(***************************************************************************)

NumResources(c, m) ==
    Cardinality({k \in PresentNeighbors(c, m) : m[k].resource # <<>>})

\* The extra-source rules that the civilizations define: the civilization,
\* the district, the label, the number of neighbors the rule matches on
\* the map m around c, and what each is worth, in halves
ExtraRules(c, m) ==
    { [civ |-> CivAustralia, district |-> d, source |-> "Pasture (Australia)",
       count |-> NumImprovement(c, m, "pasture"), bonusPerSource |-> 1] :
          d \in {"campus", "commercial_hub", "holy_site", "theater_square"} }
    \cup
    { [civ |-> CivMaya, district |-> "campus", source |-> "Farm (Maya)",
       count |-> NumImprovement(c, m, "farm"), bonusPerSource |-> 1],
      [civ |-> CivMaya, district |-> "campus", source |-> "Plantation (Maya)",
       count |-> NumImprovement(c, m, "plantation"), bonusPerSource |-> 4],
      [civ |-> CivGermany, district |-> "industrial_zone",
       source |-> "Commercial Hub (Germany)",
       count |-> NumDistrict(c, m, "commercial_hub"), bonusPerSource |-> 4],
      [civ |-> CivGermany, district |-> "industrial_zone",
       source |-> "Resource (Germany)",
       count |-> NumResources(c, m), bonusPerSource |-> 2] }

\* C25: whenever the civilization's modifier set defines extra-source rules
\* for the target district, calculateAdjacency evaluates each of them and
\* appends a source for every rule matching at least one neighbor; this
\* holds for every district that has such rules: australia's Pasture rule on
\* campus, commercial_hub, holy_site and theater_square, maya's Farm and
\* Plantation rules on campus and germany's rules on industrial_zone.
C25_ExtraRulesEvaluated ==
    \A o \in Observed :
        \A rule \in ExtraRules(coord, o.m) :
            (playerCiv = rule.civ /\ district = rule.district) =>
                OnlyLabels(o.r.breakdown, {rule.source})
                    = EntryIfAny(rule.source, rule.count, rule.bonusPerSource)

(***************************************************************************)
(* C26                                                                     *)
(***************************************************************************)

\* The whole points of the entries of a breakdown, each floored by itself
RECURSIVE SumOfFloors(_)
SumOfFloors(b) ==
    IF b = <<>> THEN 0 ELSE (Head(b).totalBonus \div 2) + SumOfFloors(Tail(b))

\* The entries whose totalBonus is fractional (an odd number of halves)
FractionalEntries(b) == {i \in DOMAIN b : b[i].totalBonus % 2 = 1}

\* C26: flooring is applied once to the grand total and never per source:
\* fractional source totals add up before truncation, so two sources each
\* contributing 0.5 give bonus 1, and every breakdown entry keeps its
\* unrounded totalBonus.  (Every two fractional entries make one more point
\* than the entries floored one by one.)
C26_FlooredOnce ==
    \A o \in Observed :
        /\ o.r.bonus = SumOfFloors(o.r.breakdown)
                          + (Cardinality(FractionalEntries(o.r.breakdown)) \div 2)
        /\ \A i \in DOMAIN o.r.breakdown :
              o.r.breakdown[i].totalBonus
                  = o.r.breakdown[i].count * o.r.breakdown[i].bonusPerSource

\* a campus of australia next to a pasture and a district: 0.5 and 0.5 give 1
C26_Witness ==
    /\ pc = "done"
    /\ district = "campus"
    /\ playerCiv = CivAustralia
    /\ result[1].breakdown =
          << Entry("Pasture (Australia)", 1, 1), Entry("District", 1, 1) >>
    /\ result[1].bonus = 1

(***************************************************************************)
(* C27                                                                     *)
(***************************************************************************)

\* C27: every entry of every breakdown has count >= 1, totalBonus == count *
\* bonusPerSource and a source label that no other entry of the same
\* breakdown has; a rule that matches no neighbor produces no entry.  (The
\* River source of the commercial hub counts the hub's own tile, every other
\* source counts neighbors.)
C27_EntriesWellFormed ==
    \A o \in Observed :
        \A i \in DOMAIN o.r.breakdown :
            LET e == o.r.breakdown[i] IN
            /\ e.count >= 1
            /\ e.source # "River" =>
                  e.count <= Cardinality(PresentNeighbors(coord, o.m))
            /\ e.totalBonus = e.count * e.bonusPerSource
            /\ \A j \in DOMAIN o.r.breakdown :
                  o.r.breakdown[j].source = e.source => j = i

\* an industrial zone of germany next to a mine on Iron and a campus: four
\* entries, and none for the quarry rule, which matches no neighbor
C27_Witness ==
    /\ pc = "done"
    /\ district = "industrial_zone"
    /\ playerCiv = CivGermany
    /\ NumImprovement(coord, tiles, "quarry") = 0
    /\ result[1].breakdown =
          << Entry("Mine", 1, 2), Entry("Strategic Resource (improved)", 1, 4),
             Entry("Resource (Germany)", 1, 2), Entry("District", 1, 1) >>

(***************************************************************************)
(* C28                                                                     *)
(***************************************************************************)

\* C28: with civilization brazil, each neighboring rainforest tile adds 1
\* through a separate Rainforest (Brazil) source to holy_site,
\* theater_square and commercial_hub, while for campus each rainforest
\* neighbor is counted exactly once (+1), so the brazil campus result equals
\* the default-civilization campus result.
C28_BrazilRainforest ==
    \A o \in Observed :
        playerCiv \in {CivBrazil, CivBrazilCaps} =>
            LET rainforest == NumFeature(coord, o.m, "rainforest")
                default    == calculateAdjacency(coord, district, o.m, <<>>)
            IN  /\ district \in {"holy_site", "theater_square", "commercial_hub"} =>
                      /\ OnlyLabels(o.r.breakdown, {"Rainforest (Brazil)"})
                            = EntryIfAny("Rainforest (Brazil)", rainforest, 2)
                      /\ RawTotal(o.r.breakdown)
                            = RawTotal(default.breakdown) + 2 * rainforest
                /\ district = "campus" =>
                      /\ OnlyLabels(o.r.breakdown, {"Rainforest", "Rainforest (Brazil)"})
                            = EntryIfAny("Rainforest", rainforest, 2)
                      /\ o.r = default

\* a holy site of brazil next to two rainforest tiles: 2, where the default
\* gives 0
C28_Witness ==
    /\ pc = "done"
    /\ district = "holy_site"
    /\ playerCiv = CivBrazil
    /\ NumFeature(coord, tiles, "rainforest") = 2
    /\ result[1].breakdown = <<Entry("Rainforest (Brazil)", 2, 2)>>
    /\ result[1].bonus = 2
    /\ calculateAdjacency(coord, district, tiles, <<>>).bonus = 0

(***************************************************************************)
(* C23                                                                     *)
(***************************************************************************)

\* C23: the store actions updateTile, addTilePlan, removeTilePlan and
\* lockTile addressed to a coordinate that has no tile are no-ops: the whole
\* store state, including the tiles map and lastUpdated, is the same as
\* before the call; on an existing tile updateTile replaces the tiles map
\* and changes only the addressed tile.
C23_MissingTileIsNoOp ==
    storeCall # <<>> =>
        LET call == storeCall[1]
            key  == coordKey(call.coord)
            was  == call.before
        IN  /\ ( /\ call.name \in {"updateTile", "addTilePlan",
                                   "removeTilePlan", "lockTile"}
                 /\ key \notin DOMAIN was.tiles ) =>
                    /\ call.same
                    /\ store = was
            /\ (call.name = "updateTile" /\ key \in DOMAIN was.tiles) =>
                    /\ ~call.same
                    /\ DOMAIN store.tiles = DOMAIN was.tiles
                    /\ \A k \in DOMAIN was.tiles \ {key} :
                          store.tiles[k] = was.tiles[k]
                    /\ \A f \in DOMAIN was \ {"tiles", "lastUpdated"} :
                          store[f] = was[f]

\* updateTile addressed to (1, 0) when only (0, 0) has a tile, at a later
\* time than the last change: nothing changed, lastUpdated neither
C23_Witness ==
    /\ storeCall # <<>>
    /\ storeCall[1].name = "updateTile"
    /\ storeCall[1].coord = HexCoord(1, 0)
    /\ DOMAIN store.tiles = {"0,0"}
    /\ store = storeCall[1].before
    /\ store.lastUpdated = 0
    /\ clock = 1

(***************************************************************************)
(* C30                                                                     *)
(***************************************************************************)

MaxBody == 1

\* The JSON strings handed to save-game, in chunks
SaveData ==
    { <<"{">> \o body \o <<"}">> :
        body \in UNION { [1..n -> {"a", "b"}] : n \in 0..MaxBody } }

InitSave ==
    /\ tiles = mapOf(<<>>)
    /\ pc = "ready"
    /\ coord = HexCoord(0, 0)
    /\ district = "undefined"
    /\ playerCiv = <<>>
    /\ result = <<>>
    /\ doubled = <<>>
    /\ before = <<>>
    /\ removed = <<>>
    /\ results = <<>>
    /\ NoHelperCall
    /\ NoStoreCall
    /\ NoPersistCall
    /\ NoSave

SaveStep(newDisk, newPc) ==
    /\ disk' = newDisk
    /\ saving' = << [saving[1] EXCEPT !.pc = newPc] >>
    /\ UNCHANGED <<adjacencyVars, helperVars, storeVars, persistVars>>

\* ipcMain.handle("save-game", ...) is invoked; no other call is under way
SaveGame(data) ==
    /\ IF saving = <<>> THEN TRUE
       ELSE saving[1].pc \in {"success", "failure", "crashed"}
    /\ saving' = << [data |-> data, previous |-> disk[filePath], pc |-> "open"] >>
    /\ UNCHANGED <<disk, adjacencyVars, helperVars, storeVars, persistVars>>

\* writeFileSync(tempPath, data): the file is opened
OpenTemp ==
    /\ saving # <<>>
    /\ saving[1].pc = "open"
    /\ SaveStep(openTruncate(disk, tempPath(filePath)), "write")

\* writeFileSync(tempPath, data): the next chunk is written
WriteChunk ==
    /\ saving # <<>>
    /\ saving[1].pc = "write"
    /\ LET written == Len(disk[tempPath(filePath)][1]) IN
        /\ written < Len(saving[1].data)
        /\ SaveStep(appendChunk(disk, tempPath(filePath), saving[1].data[written + 1]),
                    "write")

\* writeFileSync(tempPath, data): all is written, the file is closed
CloseTemp ==
    /\ saving # <<>>
    /\ saving[1].pc = "write"
    /\ Len(disk[tempPath(filePath)][1]) >= Len(saving[1].data)
    /\ SaveStep(disk, "rename")

\* fs.renameSync(tempPath, filePath); return { success: true }
Rename ==
    /\ saving # <<>>
    /\ saving[1].pc = "rename"
    /\ SaveStep(renameSync(disk, tempPath(filePath), filePath), "success")

\* A call of fs throws (no space, no permission, an I/O error): the handler
\* catches it and returns { success: false }
Fail ==
    /\ saving # <<>>
    /\ saving[1].pc \in {"open", "write", "rename"}
    /\ SaveStep(disk, "failure")

\* The process ends during the save
Crash ==
    /\ saving # <<>>
    /\ saving[1].pc \in {"open", "write", "rename"}
    /\ SaveStep(disk, "crashed")

NextSave ==
    \/ \E data \in SaveData : SaveGame(data)
    \/ OpenTemp
    \/ WriteChunk
    \/ CloseTemp
    \/ Rename
    \/ Fail
    \/ Crash

SaveSpec == InitSave /\ [][NextSave]_vars

(***************************************************************************)
(* C24                                                                     *)
(***************************************************************************)

\* C24: deserialize(serialize(state)) returns a game state equal to the
\* original: the same tile entries, the same completed techs and civics, the
\* same strategic resource counts, the same lastUpdated instant and the same
\* remaining fields.
C24_RoundTrip ==
    restored # <<>> =>
        /\ restored[1].tiles = gameState[1].tiles
        /\ restored[1].completedTechs = gameState[1].completedTechs
        /\ restored[1].completedCivics = gameState[1].completedCivics
        /\ restored[1].strategicResources = gameState[1].strategicResources
        /\ restored[1].lastUpdated = gameState[1].lastUpdated
        /\ restored = gameState

\* a state with two tiles, two techs, a civic, two resources and a
\* lastUpdated of 2024-02-29T23:59:59.999Z, restored
C24_Witness ==
    /\ restored # <<>>
    /\ serialized[1].lastUpdated =
          << "2", "0", "2", "4", "-", "0", "2", "-", "2", "9", "T",
             "2", "3", ":", "5", "9", ":", "5", "9", ".", "9", "9", "9", "Z" >>
    /\ Len(serialized[1].tiles) = 2
    /\ serialized[1].tiles[1][1] = "1,0"
    /\ serialized[1].completedTechs = <<"mining", "writing">>
    /\ restored[1].lastUpdated = [day |-> 19782, ms |-> 86399999]
    /\ restored[1].tiles.keys = <<"1,0", "0,0">>
    /\ restored[1].strategicResources.keys = <<"niter", "iron">>
    /\ restored[1].strategicResources.get["iron"] = 2
    /\ restored[1].completedCivics = <<"foreign_trade">>

(***************************************************************************)
(* C29                                                                     *)
(***************************************************************************)

\* The content is a beginning of the data and not all of it
IsPartialOf(content, data) ==
    /\ Len(content) < Len(data)
    /\ content = SubSeq(data, 1, Len(content))

====
